---- MODULE Spec2Model ----
(***************************************************************************)
(* A model of the PDF-to-Markdown converter of src/app.js: the line        *)
(* reconstruction of extractPageText, the formatter formatAsMarkdown, the  *)
(* page loop of extractTextFromPDF and the section switching of           *)
(* handleFile.                                                             *)
(*                                                                         *)
(* A JavaScript string is a sequence of UTF-16 code units; here it is a    *)
(* sequence of one-character strings.  The five non-ASCII bullet glyphs    *)
(* of the source are written by their code points.                         *)
(***************************************************************************)
EXTENDS Integers, Sequences, FiniteSets, TLC

\* ------------------------------------------------------------------------
\* Characters and character classes
\* ------------------------------------------------------------------------

BULLET == "U+2022"
MIDDOT == "U+00B7"
SMALLSQUARE == "U+25AA"
TRIANGLE == "U+25B8"
SQUARE == "U+25A0"
NL == "\n"

\* What String.prototype.trim strips and the regular expression class \s matches.
WhiteSpace == {" ", "\t", "\n", "\r"}

\* What "." does not match, and before which "$" matches under the m flag.
LineTerminators == {"\n", "\r"}

\* The class \d.
Digits == {"0", "1", "2", "3", "4", "5", "6", "7", "8", "9"}

\* The class of the heading test.
HeadingBulletClass == {BULLET, MIDDOT, SMALLSQUARE, TRIANGLE, SQUARE, "-", "*"}

\* The class of the bullet rewrite.
ListBulletClass == {BULLET, MIDDOT, SMALLSQUARE, TRIANGLE, SQUARE}

HEADING_MIN_LENGTH == 5
HEADING_MAX_LENGTH == 60
LINE_GAP == 5

\* ------------------------------------------------------------------------
\* String primitives
\* ------------------------------------------------------------------------

\* The first index >= i of s whose character is not in class, or Len(s) + 1.
RECURSIVE SkipClass(_, _, _)
SkipClass(s, i, class) ==
    IF i > Len(s) \/ s[i] \notin class THEN i ELSE SkipClass(s, i + 1, class)

\* The first index >= i of s whose character is in class, or Len(s) + 1.
RECURSIVE FindClass(_, _, _)
FindClass(s, i, class) ==
    IF i > Len(s) \/ s[i] \in class THEN i ELSE FindClass(s, i + 1, class)

\* The last index <= i of s whose character is not in class, or 0.
RECURSIVE SkipClassBack(_, _, _)
SkipClassBack(s, i, class) ==
    IF i < 1 \/ s[i] \notin class THEN i ELSE SkipClassBack(s, i - 1, class)

\* A mutation of Trim: String.prototype.trimStart.
TrimStartOnly(s) == SubSeq(s, SkipClass(s, 1, WhiteSpace), Len(s))

\* String.prototype.trim
Trim(s) ==
    SubSeq(s, SkipClass(s, 1, WhiteSpace), SkipClassBack(s, Len(s), WhiteSpace))

\* The first index i >= from with s[i] = s[i+1] = "\n", or 0 when there is none.
RECURSIVE FindBreak(_, _)
FindBreak(s, from) ==
    LET i == FindClass(s, from, {NL})
    IN  IF i >= Len(s) THEN 0
        ELSE IF s[i + 1] = NL THEN i
        ELSE FindBreak(s, i + 1)

\* String.prototype.split with the separator "\n\n": the pieces between the
\* non-overlapping occurrences of the separator, found left to right.
RECURSIVE SplitFrom(_, _)
SplitFrom(s, start) ==
    LET i == FindBreak(s, start)
    IN  IF i = 0 THEN << SubSeq(s, start, Len(s)) >>
        ELSE << SubSeq(s, start, i - 1) >> \o SplitFrom(s, i + 2)

SplitParagraphs(s) == SplitFrom(s, 1)

\* Array.prototype.join
RECURSIVE Join(_, _)
Join(arr, sep) ==
    IF Len(arr) = 0 THEN << >>
    ELSE IF Len(arr) = 1 THEN arr[1]
    ELSE arr[1] \o sep \o Join(Tail(arr), sep)

ParagraphBreak == << NL, NL >>

\* ------------------------------------------------------------------------
\* formatAsMarkdown
\* ------------------------------------------------------------------------

\* text.split('\n\n').filter(p => p.trim())
Paragraphs(text) ==
    SelectSeq(SplitParagraphs(text), LAMBDA p : Trim(p) # << >>)

\* trimmed.match(/^\d+\./)
MatchesOrderedMarker(t) ==
    LET d == SkipClass(t, 1, Digits)
    IN  d > 1 /\ d <= Len(t) /\ t[d] = "."

\* trimmed.match(/^[bullets\-\*]/)
MatchesBulletMarker(t) == Len(t) >= 1 /\ t[1] \in HeadingBulletClass

HeadingPrefix == << "#", "#", " " >>

\* A mutation of FormatParagraph: the lower length test written >= .
FormatParagraphAtLeast(para, idx, arr) ==
    LET trimmed == Trim(para)
    IN  IF /\ Len(trimmed) >= HEADING_MIN_LENGTH
           /\ Len(trimmed) < HEADING_MAX_LENGTH
           /\ ~ MatchesOrderedMarker(trimmed)
           /\ ~ MatchesBulletMarker(trimmed)
           /\ idx < Len(arr)
           /\ Len(arr[idx + 1]) > Len(trimmed)
        THEN HeadingPrefix \o trimmed
        ELSE trimmed

\* The callback of paragraphs.map; idx counts from 1 here, from 0 in the source.
FormatParagraph(para, idx, arr) ==
    LET trimmed == Trim(para)
    IN  IF /\ Len(trimmed) > HEADING_MIN_LENGTH
           /\ Len(trimmed) < HEADING_MAX_LENGTH
           /\ ~ MatchesOrderedMarker(trimmed)
           /\ ~ MatchesBulletMarker(trimmed)
           /\ idx < Len(arr)
           /\ Len(arr[idx + 1]) > Len(trimmed)
        THEN HeadingPrefix \o trimmed
        ELSE trimmed

FormattedParagraphs(paragraphs) ==
    [idx \in 1 .. Len(paragraphs) |->
        FormatParagraph(paragraphs[idx], idx, paragraphs)]

\* "^" under the m flag: the start of the input or just after a line terminator.
AtLineStart(s, i) == i = 1 \/ s[i - 1] \in LineTerminators

\* The tail \s+(.+)$ of both list patterns, tried at index j of s.  \s+ is
\* greedy and gives characters back until "." can match one: the capture
\* starts at the last index m with j < m, the characters j .. m-1 all white
\* space, and s[m] no line terminator; it runs to the end of that line.
\* The result is <<m, e>>, the capture being s[m .. e-1], or << >> (no match).
ListTail(s, j) ==
    LET k == SkipClass(s, j, WhiteSpace)
        starts == {m \in (j + 1) .. k : m <= Len(s) /\ s[m] \notin LineTerminators}
    IN  IF starts = {} THEN << >>
        ELSE LET m == CHOOSE x \in starts : \A y \in starts : y <= x
             IN  << m, FindClass(s, m, LineTerminators) >>

\* /^([bullets])\s+(.+)$/ tried at index i.
BulletMatch(s, i) ==
    IF AtLineStart(s, i) /\ s[i] \in ListBulletClass
    THEN ListTail(s, i + 1)
    ELSE << >>

\* The index after the first line terminator at or after i: the next place
\* where "^" can match.
NextLineStart(s, i) ==
    LET p == FindClass(s, i, LineTerminators)
    IN  IF p > Len(s) THEN p ELSE p + 1

\* markdown.replace(/^([bullets])\s+(.+)$/gm, '- $2'), from index i on: a
\* match is rewritten and the search goes on after it; where there is none
\* the text up to the next line start is kept.
RECURSIVE ReplaceBulletsFrom(_, _)
ReplaceBulletsFrom(s, i) ==
    IF i > Len(s) THEN << >>
    ELSE LET m == BulletMatch(s, i)
             n == NextLineStart(s, i)
         IN  IF m # << >>
             THEN << "-", " " >> \o SubSeq(s, m[1], m[2] - 1)
                      \o ReplaceBulletsFrom(s, m[2])
             ELSE SubSeq(s, i, n - 1) \o ReplaceBulletsFrom(s, n)

\* A mutation of FormatBullets: the g flag is missing, the first match alone
\* is rewritten.
RECURSIVE ReplaceFirstBulletFrom(_, _)
ReplaceFirstBulletFrom(s, i) ==
    IF i > Len(s) THEN << >>
    ELSE LET m == BulletMatch(s, i)
             n == NextLineStart(s, i)
         IN  IF m # << >>
             THEN << "-", " " >> \o SubSeq(s, m[1], Len(s))
             ELSE SubSeq(s, i, n - 1) \o ReplaceFirstBulletFrom(s, n)
FormatBulletsOnce(s) == ReplaceFirstBulletFrom(s, 1)

FormatBullets(s) == ReplaceBulletsFrom(s, 1)

\* /^(\d+)\.\s+(.+)$/ tried at index i: <<d, m, e>> with the numeral
\* s[i .. d-1] and the capture s[m .. e-1], or << >>.
OrderedMatch(s, i) ==
    LET d == SkipClass(s, i, Digits)
    IN  IF AtLineStart(s, i) /\ d > i /\ d <= Len(s) /\ s[d] = "."
        THEN LET t == ListTail(s, d + 1)
             IN  IF t = << >> THEN << >> ELSE << d >> \o t
        ELSE << >>

\* markdown.replace(/^(\d+)\.\s+(.+)$/gm, '$1. $2'), from index i on.
RECURSIVE ReplaceOrderedFrom(_, _)
ReplaceOrderedFrom(s, i) ==
    IF i > Len(s) THEN << >>
    ELSE LET m == OrderedMatch(s, i)
             n == NextLineStart(s, i)
         IN  IF m # << >>
             THEN SubSeq(s, i, m[1] - 1) \o << ".", " " >>
                      \o SubSeq(s, m[2], m[3] - 1)
                      \o ReplaceOrderedFrom(s, m[3])
             ELSE SubSeq(s, i, n - 1) \o ReplaceOrderedFrom(s, n)

FormatNumberedLists(s) == ReplaceOrderedFrom(s, 1)

\* markdown.replace(/\n{3,}/g, '\n\n'), from index i on: the text up to the
\* next run of newlines is kept, the run is replaced when it has three or more.
RECURSIVE CollapseFrom(_, _)
CollapseFrom(s, i) ==
    IF i > Len(s) THEN << >>
    ELSE LET p == FindClass(s, i, {NL})
             r == SkipClass(s, p, {NL})
         IN  SubSeq(s, i, p - 1)
               \o (IF r - p >= 3 THEN ParagraphBreak ELSE SubSeq(s, p, r - 1))
               \o CollapseFrom(s, r)

CollapseBlankLines(s) == CollapseFrom(s, 1)

\* Steps "Format bullet points" and "Format numbered lists", in that order.
NormalizeLists(s) == FormatNumberedLists(FormatBullets(s))

\* The text after the paragraphs are classified and joined again.
JoinedParagraphs(text) ==
    Join(FormattedParagraphs(Paragraphs(text)), ParagraphBreak)

formatAsMarkdown(text) ==
    Trim(CollapseBlankLines(NormalizeLists(JoinedParagraphs(text))))

\* ------------------------------------------------------------------------
\* extractPageText
\* ------------------------------------------------------------------------

Abs(x) == IF x < 0 THEN 0 - x ELSE x

\* The accumulators of extractPageText before the first item; lastY is << >>
\* for null and <<y>> once set.
PageStart == [lastY |-> << >>, line |-> << >>, pageText |-> << >>]

\* A mutation of IsLineBreak: the gap test written >= .
IsLineBreakAtLeast(lastY, y) == lastY # << >> /\ Abs(y - lastY[1]) >= LINE_GAP

\* lastY !== null && Math.abs(y - lastY) > 5
IsLineBreak(lastY, y) == lastY # << >> /\ Abs(y - lastY[1]) > LINE_GAP

\* if (line.trim()) pageText += line.trim() + '\n\n'
FlushLine(pageText, line) ==
    IF Trim(line) # << >> THEN pageText \o Trim(line) \o ParagraphBreak
    ELSE pageText

\* The callback of textContent.items.forEach, applied to one item.
PageItem(st, item) ==
    LET brk == IsLineBreak(st.lastY, item.y)
    IN  [lastY    |-> << item.y >>,
         line     |-> (IF brk THEN << >> ELSE st.line) \o item.str \o << " " >>,
         pageText |-> IF brk THEN FlushLine(st.pageText, st.line) ELSE st.pageText]

RECURSIVE PageItems(_, _, _)
PageItems(items, k, st) ==
    IF k > Len(items) THEN st
    ELSE PageItems(items, k + 1, PageItem(st, items[k]))

\* A mutation of extractPageText: the final line is not added.
extractPageTextNoFinalLine(items) == PageItems(items, 1, PageStart).pageText

extractPageText(items) ==
    LET st == PageItems(items, 1, PageStart)
    IN  FlushLine(st.pageText, st.line)

\* ------------------------------------------------------------------------
\* Configuration
\* ------------------------------------------------------------------------

\* CONFIG.MAX_FILE_SIZE, 50 * 1024 * 1024
MAX_FILE_SIZE == 52428800
ACCEPTED_FILE_TYPE == "application/pdf"

\* ------------------------------------------------------------------------
\* State
\* ------------------------------------------------------------------------

VARIABLES
    \* one call of formatAsMarkdown: its argument, its locals and its result
    text, paragraphs, formattedParagraphs, markdown, fmtPc,
    \* one call of extractPageText: its argument and its result
    textContent, pageText, pagePc,
    \* the page: the sections and the editor of elements.*, and appState.  What
    \* is only displayed (preview, file name and statistics, scrolling) and
    \* appState.processingStartTime, read by a console message alone, are left out.
    uploadDisplay, loadingShown, resultsShown, errorShown, errorMessage,
    editorValue, currentFileName,
    \* handleFile and the call of extractTextFromPDF it awaits
    hf, file, pc, numPages, pageNum, fullText, result, thrown,
    \* the provider: requests not yet answered, every request made so far,
    \* the error it raised, and the pages whose text was appended, in order
    pending, requestLog, raised, appendedPages,
    \* calls of extractTextFromPDF made side by side: the locals of each call,
    \* the fullText bindings, the requests not yet answered, and the pages
    \* appended, in order, as pairs << call, page >>
    calls, fullTexts, waiting, appendLog,
    \* the copy button: elements.copyBtn.innerHTML and .disabled, and the
    \* calls of handleCopyClick made so far
    copyHTML, copyDisabled, clicks

fmtVars == << text, paragraphs, formattedParagraphs, markdown, fmtPc >>
pageVars == << textContent, pageText, pagePc >>
uiVars == << uploadDisplay, loadingShown, resultsShown, errorShown,
             errorMessage, editorValue, currentFileName >>
callVars == << file, pc, numPages, pageNum, fullText, result, thrown >>
envVars == << pending, requestLog, raised, appendedPages >>
overlapVars == << calls, fullTexts, waiting, appendLog >>
copyVars == << copyHTML, copyDisabled, clicks >>
vars == << fmtVars, pageVars, uiVars, hf, callVars, envVars, overlapVars, copyVars >>

\* ------------------------------------------------------------------------
\* Inputs
\* ------------------------------------------------------------------------

MaxLen == 5
MaxContext == 1
MaxItems == 3
MaxPages == 2
MaxClicks == 3

RECURSIVE Repeat(_, _)
Repeat(c, n) == IF n <= 0 THEN << >> ELSE << c >> \o Repeat(c, n - 1)

\* All sequences over S of length at most n.
SeqsUpTo(S, n) == UNION {[1 .. k -> S] : k \in 0 .. n}

Intro == << "I", "n", "t", "r", "o" >>
Details == << "D", "e", "t", "a", "i", "l", "s" >>
PageRule == << "-", "-", "-" >>

\* Short texts over the characters the list patterns tell apart.
FmtAlphabet == {BULLET, "*", "1", ".", " ", NL}
SmallTexts == SeqsUpTo(FmtAlphabet, MaxLen)

\* Paragraphs around the bounds of the heading test: a marker (or none),
\* then letters up to a trimmed length n, inside optional blanks.
ParaKinds == {"plain", "ordered", "digits", "bullet", "dash", "star", "padded"}
ParaLengths == {HEADING_MIN_LENGTH, HEADING_MIN_LENGTH + 1,
                HEADING_MAX_LENGTH - 1, HEADING_MAX_LENGTH}
Para(kind, n) ==
    CASE kind = "plain"   -> Repeat("x", n)
      [] kind = "ordered" -> << "1", "2", "." >> \o Repeat("x", n - 3)
      [] kind = "digits"  -> << "1", "2" >> \o Repeat("x", n - 2)
      [] kind = "bullet"  -> << BULLET >> \o Repeat("x", n - 1)
      [] kind = "dash"    -> << "-" >> \o Repeat("x", n - 1)
      [] kind = "star"    -> << "*" >> \o Repeat("x", n - 1)
      [] kind = "padded"  -> << " " >> \o Repeat("x", n) \o << " " >>
ParaFamily == {Para(k, n) : k \in ParaKinds, n \in ParaLengths}
ContextParas == {Repeat("y", HEADING_MIN_LENGTH + 2), Repeat("y", HEADING_MAX_LENGTH + 1)}
Followers == {Para(k, n) : k \in {"plain", "padded"}, n \in ParaLengths}
ParagraphTexts ==
    {Join(pre \o << a, b >> \o post, ParagraphBreak) :
        pre \in SeqsUpTo(ContextParas, MaxContext),
        a \in ParaFamily, b \in Followers,
        post \in SeqsUpTo(ContextParas, MaxContext)}
      \cup {Join(pre \o << a >>, ParagraphBreak) :
        pre \in SeqsUpTo(ContextParas, MaxContext), a \in ParaFamily}

SampleTexts ==
    { Repeat("x", 6) \o Repeat(NL, 5) \o Repeat("x", 7),
      << BULLET, " " >> \o Intro,
      << MIDDOT, " ", " " >> \o Intro,
      << SMALLSQUARE, "\t" >> \o Intro,
      << TRIANGLE, " " >> \o Intro \o << NL >> \o << SQUARE, " " >> \o Details,
      << "-", " ", " " >> \o Intro,
      << "*", " " >> \o Intro,
      << "7", ".", " ", " " >> \o Intro \o ParagraphBreak \o << "8", "." >> \o Details,
      << BULLET, " ", " " >> \o Intro \o << NL, "7", ".", " ", " " >> \o Details,
      << BULLET >> \o ParagraphBreak \o Intro }

FmtInputs == SmallTexts \cup ParagraphTexts \cup SampleTexts

\* Text items of a page: item.str and item.transform[5].
Item(str, y) == [str |-> str, y |-> y]
ItemStrs == {<< "A" >>, << "B" >>, << " " >>, << >>}
ItemYs == {100, 100 + LINE_GAP, 100 + LINE_GAP + 1}
PageInputs == SeqsUpTo({Item(s, y) : s \in ItemStrs, y \in ItemYs}, MaxItems)

\* Pages of the documents handed to handleFile.
SamplePages ==
    { << >>,
      << Item(<< " " >>, 700) >>,
      << Item(Intro, 700) >>,
      << Item(Details, 700) >>,
      << Item(Details, 700), Item(Details, 650), Item(Intro, 650) >>,
      << Item(<< BULLET >>, 700), Item(<< " " >>, 700), Item(Intro, 700) >>,
      << Item(<< BULLET >>, 700), Item(Details, 650) >>,
      << Item(<< "1", "." >>, 700), Item(<< " " >>, 700), Item(Intro, 700) >> }
Documents == SeqsUpTo(SamplePages, MaxPages) \ {<< >>}
Files ==
    {[name |-> "report.pdf", type |-> ACCEPTED_FILE_TYPE, size |-> MAX_FILE_SIZE, pages |-> d] :
        d \in Documents}
      \cup {[name |-> "notes.txt", type |-> "text/plain", size |-> 1, pages |-> << << >> >>],
            [name |-> "report.pdf", type |-> ACCEPTED_FILE_TYPE, size |-> MAX_FILE_SIZE + 1,
             pages |-> << << >> >>]}
NoFile == [name |-> "", type |-> "", size |-> 0, pages |-> << >>]

\* err.name of what the provider raises.
Errors == {[name |-> "InvalidPDFException"], [name |-> "PasswordException"],
           [name |-> "UnknownErrorException"]}
NoError == [name |-> ""]

Request(op, page) == [op |-> op, page |-> page]

\* Calls of extractTextFromPDF made side by side, and their documents.
CallIds == {1, 2}
OverlapPages == {<< Item(Intro, 700) >>, << Item(Details, 700) >>}
OverlapDocuments == SeqsUpTo(OverlapPages, MaxPages) \ {<< >>}
NoCall ==
    [doc |-> << >>, pc |-> "idle", numPages |-> 0, pageNum |-> 0,
     result |-> << >>, thrown |-> NoError]
CallRequest(id, op, page) == [call |-> id, op |-> op, page |-> page]

\* The copy button's label in the page, and the feedback label.
COPY_LABEL == "Copy"
COPIED_LABEL == "Copied!"

\* A call of handleCopyClick: where it stands, the label it saved, and the
\* rank of its timer among the timers set (0: none set).
Click(at, saved, rank) == [pc |-> at, originalHTML |-> saved, timer |-> rank]

\* ------------------------------------------------------------------------
\* Initial states
\* ------------------------------------------------------------------------

FmtIdle ==
    /\ text = << >> /\ paragraphs = << >> /\ formattedParagraphs = << >>
    /\ markdown = << >> /\ fmtPc = "idle"
PageIdle == textContent = << >> /\ pageText = << >> /\ pagePc = "idle"
AppStart ==
    /\ uploadDisplay = "" /\ loadingShown = FALSE /\ resultsShown = FALSE
    /\ errorShown = FALSE /\ errorMessage = "" /\ editorValue = << >>
    /\ currentFileName = ""
    /\ hf = "idle" /\ file = NoFile /\ pc = "idle" /\ numPages = 0 /\ pageNum = 0
    /\ fullText = << >> /\ result = << >> /\ thrown = NoError
    /\ pending = {} /\ requestLog = << >> /\ raised = NoError
    /\ appendedPages = << >>

OverlapIdle ==
    /\ calls = [id \in CallIds |-> NoCall]
    /\ fullTexts = [id \in CallIds |-> << >>]
    /\ waiting = {} /\ appendLog = << >>
CopyIdle == copyHTML = COPY_LABEL /\ copyDisabled = FALSE /\ clicks = << >>

Init == FmtIdle /\ PageIdle /\ AppStart /\ OverlapIdle /\ CopyIdle
InitFmt ==
    /\ text \in FmtInputs /\ paragraphs = << >> /\ formattedParagraphs = << >>
    /\ markdown = << >> /\ fmtPc = "call"
    /\ PageIdle /\ AppStart /\ OverlapIdle /\ CopyIdle
\* The page after report.pdf, of one page reading Intro, was converted.
AppConverted ==
    /\ uploadDisplay = "none" /\ loadingShown = FALSE /\ resultsShown = TRUE
    /\ errorShown = FALSE /\ errorMessage = "" /\ editorValue = Intro
    /\ currentFileName = "report"
    /\ hf = "shown"
    /\ file = [name |-> "report.pdf", type |-> ACCEPTED_FILE_TYPE,
               size |-> MAX_FILE_SIZE, pages |-> << << Item(Intro, 700) >> >>]
    /\ pc = "resolved" /\ numPages = 1 /\ pageNum = 2
    /\ fullText = Intro \o << NL, NL >> /\ result = << Intro >> /\ thrown = NoError
    /\ pending = {}
    /\ requestLog = << Request("arrayBuffer", 0), Request("getDocument", 0),
                       Request("getPage", 1), Request("getTextContent", 1) >>
    /\ raised = NoError /\ appendedPages = << 1 >>
InitCopy == FmtIdle /\ PageIdle /\ AppConverted /\ OverlapIdle /\ CopyIdle
InitPage ==
    /\ textContent \in PageInputs /\ pageText = << >> /\ pagePc = "call"
    /\ FmtIdle /\ AppStart /\ OverlapIdle /\ CopyIdle

\* ------------------------------------------------------------------------
\* The pure functions, called once on the input drawn
\* ------------------------------------------------------------------------

\* formatAsMarkdown(text), with the locals of the call kept.
FormatCall ==
    /\ fmtPc = "call"
    /\ paragraphs' = Paragraphs(text)
    /\ formattedParagraphs' = FormattedParagraphs(Paragraphs(text))
    /\ markdown' = formatAsMarkdown(text)
    /\ fmtPc' = "return"
    /\ UNCHANGED << text, pageVars, uiVars, hf, callVars, envVars, overlapVars,
                    copyVars >>

\* extractPageText(textContent)
PageCall ==
    /\ pagePc = "call"
    /\ pageText' = extractPageText(textContent)
    /\ pagePc' = "return"
    /\ UNCHANGED << textContent, fmtVars, uiVars, hf, callVars, envVars,
                    overlapVars, copyVars >>

\* ------------------------------------------------------------------------
\* extractTextFromPDF
\* ------------------------------------------------------------------------

PageSeparator == << NL, NL >> \o PageRule \o << NL, NL >>

\* A mutation of AppendPage: the separator follows every page.
AppendPageAlways(full, page, n, total) == full \o page \o PageSeparator

\* A mutation of AppendPage: the page text is put in front.
PrependPage(full, page, n, total) ==
    IF n < total THEN page \o PageSeparator \o full ELSE page \o full

\* fullText += pageText; if (pageNum < pdf.numPages) fullText += '\n\n---\n\n'
AppendPage(full, page, n, total) ==
    IF n < total THEN full \o page \o PageSeparator ELSE full \o page

\* A mutation of PageRequests: the next page is requested along with page n.
PageRequestsAhead(n, total) ==
    {Request("getPage", k) : k \in {j \in {n, n + 1} : j <= total}}

\* The loop head: while pageNum <= pdf.numPages the one request
\* pdf.getPage(pageNum) is made and awaited.
PageRequests(n, total) ==
    IF n <= total THEN {Request("getPage", n)} ELSE {}

\* A mutation of ExtractCatch: a new error is thrown in place of the caught one.
ExtractCatchWrapped(err) == [name |-> "Error"]

\* catch (err) { console.error(...); throw err; }
ExtractCatch(err) == err

\* The requests in the order they are logged.
RECURSIVE SetToSeq(_)
SetToSeq(S) ==
    IF S = {} THEN << >>
    ELSE LET r == CHOOSE x \in S : \A y \in S : x.page <= y.page
         IN  << r >> \o SetToSeq(S \ {r})

\* The call up to its first await: file.arrayBuffer() is requested.
ExtractStart(f) ==
    /\ file' = f
    /\ pc' = "await"
    /\ numPages' = 0 /\ pageNum' = 0 /\ fullText' = << >>
    /\ result' = << >> /\ thrown' = NoError
    /\ pending' = {Request("arrayBuffer", 0)}
    /\ requestLog' = << Request("arrayBuffer", 0) >>
    /\ raised' = NoError
    /\ appendedPages' = << >>

\* file.arrayBuffer() resolves: pdfjsLib.getDocument is called and its
\* promise awaited.
ArrayBufferLoaded ==
    /\ pc = "await"
    /\ \E r \in pending :
        /\ r.op = "arrayBuffer"
        /\ pending' = (pending \ {r}) \cup {Request("getDocument", 0)}
        /\ requestLog' = Append(requestLog, Request("getDocument", 0))
    /\ UNCHANGED << overlapVars, copyVars, fmtVars, pageVars,
                    uiVars, hf, file, pc, numPages, pageNum,
                    fullText, result, thrown, raised, appendedPages >>

\* Leaving the loop: return formatAsMarkdown(fullText).  Entering an
\* iteration: the page is requested.
LoopHead(n, total, full, answered) ==
    /\ pageNum' = n
    /\ fullText' = full
    /\ LET reqs == PageRequests(n, total)
       IN  /\ pending' = (pending \ {answered}) \cup reqs
           /\ requestLog' = requestLog \o SetToSeq(reqs)
           /\ IF n <= total
              THEN pc' = "await" /\ result' = result
              ELSE pc' = "resolved" /\ result' = << formatAsMarkdown(full) >>

\* loadingTask.promise resolves with the document: fullText = '' and the
\* loop starts at page 1.
DocumentLoaded ==
    /\ pc = "await"
    /\ \E r \in pending :
        /\ r.op = "getDocument"
        /\ numPages' = Len(file.pages)
        /\ LoopHead(1, Len(file.pages), << >>, r)
    /\ UNCHANGED << overlapVars, copyVars, fmtVars, pageVars,
                    uiVars, hf, file, thrown, raised,
                    appendedPages >>

\* pdf.getPage(n) resolves: page.getTextContent() is requested.
PageLoaded ==
    /\ pc = "await"
    /\ \E r \in pending :
        /\ r.op = "getPage"
        /\ pending' = (pending \ {r}) \cup {Request("getTextContent", r.page)}
        /\ requestLog' = Append(requestLog, Request("getTextContent", r.page))
    /\ UNCHANGED << overlapVars, copyVars, fmtVars, pageVars,
                    uiVars, hf, file, pc, numPages, pageNum,
                    fullText, result, thrown, raised, appendedPages >>

\* page.getTextContent() resolves: the rest of the iteration, and the next
\* loop head.
TextContentLoaded ==
    /\ pc = "await"
    /\ \E r \in pending :
        /\ r.op = "getTextContent"
        /\ appendedPages' = Append(appendedPages, r.page)
        /\ LoopHead(pageNum + 1, numPages,
                    AppendPage(fullText, extractPageText(file.pages[r.page]),
                               pageNum, numPages),
                    r)
    /\ UNCHANGED << overlapVars, copyVars, fmtVars, pageVars,
                    uiVars, hf, file, numPages, thrown, raised >>

\* An awaited promise rejects with err: the catch block runs.
ProviderFails ==
    /\ pc = "await"
    /\ \E r \in pending, err \in Errors :
        /\ raised' = err
        /\ thrown' = ExtractCatch(err)
        /\ pending' = pending \ {r}
    /\ pc' = "rejected"
    /\ UNCHANGED << overlapVars, copyVars, fmtVars, pageVars,
                    uiVars, hf, file, numPages, pageNum,
                    fullText, result, requestLog, appendedPages >>

\* ------------------------------------------------------------------------
\* handleFile, showResults, resetApp
\* ------------------------------------------------------------------------

\* file.name.replace('.pdf', '') for the names drawn.
WithoutPdf(name) == IF name = "report.pdf" THEN "report" ELSE name

\* The message handleFile chooses from err.name.
FailureMessage(err) ==
    IF err.name = "InvalidPDFException" THEN "corrupted"
    ELSE IF err.name = "PasswordException" THEN "password-protected"
    ELSE "try another file"

\* handleFile(file) up to its await.  A file arrives by the file input or by
\* a drop on the upload area, both inside the upload section: none arrives
\* while that section is not displayed.
HandleFile ==
    /\ uploadDisplay # "none"
    /\ \E f \in Files :
        IF f.type # ACCEPTED_FILE_TYPE
        THEN /\ errorShown' = TRUE /\ errorMessage' = "invalid type"
             /\ hf' = "refused"
             /\ UNCHANGED << uploadDisplay, loadingShown, resultsShown, editorValue,
                             currentFileName, callVars, envVars >>
        ELSE IF f.size > MAX_FILE_SIZE
        THEN /\ errorShown' = TRUE /\ errorMessage' = "too large"
             /\ hf' = "refused"
             /\ UNCHANGED << uploadDisplay, loadingShown, resultsShown, editorValue,
                             currentFileName, callVars, envVars >>
        ELSE /\ errorShown' = FALSE
             /\ currentFileName' = WithoutPdf(f.name)
             /\ uploadDisplay' = "none"
             /\ loadingShown' = TRUE
             /\ hf' = "await"
             /\ ExtractStart(f)
             /\ UNCHANGED << resultsShown, errorMessage, editorValue >>
    /\ UNCHANGED << overlapVars, copyVars, fmtVars, pageVars >>

\* The await of handleFile resumes with the Markdown: showResults(markdown).
HandleFileResumes ==
    /\ hf = "await" /\ pc = "resolved"
    /\ loadingShown' = FALSE
    /\ resultsShown' = TRUE
    /\ editorValue' = result[1]
    /\ hf' = "shown"
    /\ UNCHANGED << overlapVars, copyVars, fmtVars, pageVars,
                    uploadDisplay, errorShown, errorMessage,
                    currentFileName, callVars, envVars >>

\* The await of handleFile throws: showError(errorMessage); hideLoading().
HandleFileCatches ==
    /\ hf = "await" /\ pc = "rejected"
    /\ errorShown' = TRUE
    /\ errorMessage' = FailureMessage(thrown)
    /\ loadingShown' = FALSE
    /\ hf' = "failed"
    /\ UNCHANGED << overlapVars, copyVars, fmtVars, pageVars,
                    uploadDisplay, resultsShown, editorValue,
                    currentFileName, callVars, envVars >>

\* handleNewFileClick with the confirmation accepted: resetApp().  The button
\* belongs to the results section.
ResetApp ==
    /\ resultsShown
    /\ resultsShown' = FALSE
    /\ uploadDisplay' = "block"
    /\ editorValue' = << >>
    /\ currentFileName' = ""
    /\ errorShown' = FALSE
    /\ UNCHANGED << overlapVars, copyVars, fmtVars, pageVars,
                    loadingShown, errorMessage, hf, callVars,
                    envVars >>

\* ------------------------------------------------------------------------
\* extractTextFromPDF, called again while a call is awaiting
\* ------------------------------------------------------------------------

\* A mutation of AccumulatorOf: one fullText for all calls, as a variable of
\* the script would be.
AccumulatorShared(id) == 1

\* let fullText = '' declares the accumulator inside the function body: every
\* call has a binding of its own.
AccumulatorOf(id) == id

\* extractTextFromPDF(file) is called: file.arrayBuffer() is requested.
ExtractCalled(id) ==
    /\ calls[id].pc = "idle"
    /\ \E d \in OverlapDocuments :
        calls' = [calls EXCEPT ![id] = [NoCall EXCEPT !.doc = d, !.pc = "await"]]
    /\ waiting' = waiting \cup {CallRequest(id, "arrayBuffer", 0)}
    /\ UNCHANGED << fullTexts, appendLog >>

\* file.arrayBuffer() resolves in call id.
ArrayBufferLoadedInCall(id) ==
    /\ calls[id].pc = "await"
    /\ \E r \in waiting :
        /\ r.call = id /\ r.op = "arrayBuffer"
        /\ waiting' = (waiting \ {r}) \cup {CallRequest(id, "getDocument", 0)}
    /\ UNCHANGED << calls, fullTexts, appendLog >>

\* The loop head of call id, as LoopHead.
LoopHeadInCall(id, n, total, full, answered) ==
    /\ calls' = [calls EXCEPT ![id] =
                    [@ EXCEPT !.numPages = total,
                              !.pageNum = n,
                              !.pc = IF n <= total THEN "await" ELSE "resolved",
                              !.result = IF n <= total THEN @
                                         ELSE << formatAsMarkdown(full) >>]]
    /\ fullTexts' = [fullTexts EXCEPT ![AccumulatorOf(id)] = full]
    /\ waiting' = (waiting \ {answered})
                      \cup {CallRequest(id, q.op, q.page) : q \in PageRequests(n, total)}

\* loadingTask.promise resolves in call id: fullText = '' and page 1.
DocumentLoadedInCall(id) ==
    /\ calls[id].pc = "await"
    /\ \E r \in waiting :
        /\ r.call = id /\ r.op = "getDocument"
        /\ LoopHeadInCall(id, 1, Len(calls[id].doc), << >>, r)
    /\ UNCHANGED appendLog

\* pdf.getPage(n) resolves in call id.
PageLoadedInCall(id) ==
    /\ calls[id].pc = "await"
    /\ \E r \in waiting :
        /\ r.call = id /\ r.op = "getPage"
        /\ waiting' = (waiting \ {r}) \cup {CallRequest(id, "getTextContent", r.page)}
    /\ UNCHANGED << calls, fullTexts, appendLog >>

\* page.getTextContent() resolves in call id: the page text is appended to
\* the call's fullText.
TextContentLoadedInCall(id) ==
    /\ calls[id].pc = "await"
    /\ \E r \in waiting :
        /\ r.call = id /\ r.op = "getTextContent"
        /\ appendLog' = Append(appendLog, << id, r.page >>)
        /\ LoopHeadInCall(id, calls[id].pageNum + 1, calls[id].numPages,
                          AppendPage(fullTexts[AccumulatorOf(id)],
                                     extractPageText(calls[id].doc[r.page]),
                                     calls[id].pageNum, calls[id].numPages),
                          r)

\* An awaited promise of call id rejects: its catch block rethrows.
ProviderFailsInCall(id) ==
    /\ calls[id].pc = "await"
    /\ \E r \in waiting, err \in Errors :
        /\ r.call = id
        /\ waiting' = waiting \ {r}
        /\ calls' = [calls EXCEPT ![id] =
                        [@ EXCEPT !.pc = "rejected", !.thrown = ExtractCatch(err)]]
    /\ UNCHANGED << fullTexts, appendLog >>

\* ------------------------------------------------------------------------
\* handleCopyClick
\* ------------------------------------------------------------------------

\* The timers set and not yet fired.
TimersSet == {k \in 1 .. Len(clicks) : clicks[k].timer > 0}
TimersPending == {k \in 1 .. Len(clicks) : clicks[k].pc = "timer"}

\* const originalHTML = elements.copyBtn.innerHTML, read when the handler
\* resumes after the await.
SavedLabel(shown) == shown

\* A click on the copy button: handleCopyClick up to its await of
\* navigator.clipboard.writeText(markdown).  A disabled button receives no
\* click.
CopyClick ==
    /\ ~ copyDisabled
    /\ Len(clicks) < MaxClicks
    /\ clicks' = Append(clicks, Click("await", "", 0))
    /\ UNCHANGED << copyHTML, copyDisabled, uiVars >>

\* writeText resolves for click k: the label is saved and replaced, the
\* button is disabled and the timer is set.
ClipboardWritten ==
    /\ \E k \in 1 .. Len(clicks) :
        /\ clicks[k].pc = "await"
        /\ clicks' = [clicks EXCEPT ![k] =
                         Click("timer", SavedLabel(copyHTML), Cardinality(TimersSet) + 1)]
    /\ copyHTML' = COPIED_LABEL
    /\ copyDisabled' = TRUE
    /\ UNCHANGED uiVars

\* writeText rejects for click k: the catch block shows the error.
ClipboardFails ==
    /\ \E k \in 1 .. Len(clicks) :
        /\ clicks[k].pc = "await"
        /\ clicks' = [clicks EXCEPT ![k].pc = "failed"]
    /\ errorShown' = TRUE
    /\ errorMessage' = "copy failed"
    /\ UNCHANGED << copyHTML, copyDisabled, uploadDisplay, loadingShown, resultsShown,
                    editorValue, currentFileName >>

\* The timer of click k fires: the saved label is put back and the button
\* is enabled.  The timers have one delay, COPY_FEEDBACK_DURATION, and fire
\* in the order they were set.
FeedbackTimerFires ==
    /\ \E k \in TimersPending :
        /\ \A j \in TimersPending : clicks[k].timer <= clicks[j].timer
        /\ copyHTML' = clicks[k].originalHTML
        /\ clicks' = [clicks EXCEPT ![k].pc = "done"]
    /\ copyDisabled' = FALSE
    /\ UNCHANGED uiVars

\* ------------------------------------------------------------------------
\* Specifications
\* ------------------------------------------------------------------------

Next ==
    \/ HandleFile
    \/ ArrayBufferLoaded
    \/ DocumentLoaded
    \/ PageLoaded
    \/ TextContentLoaded
    \/ ProviderFails
    \/ HandleFileResumes
    \/ HandleFileCatches
    \/ ResetApp

\* The application: files are handed in, the provider answers or fails.
Spec == Init /\ [][Next]_vars

\* formatAsMarkdown on every text of FmtInputs.
SpecFmt == InitFmt /\ [][FormatCall]_vars

\* extractPageText on every item sequence of PageInputs.
SpecPage == InitPage /\ [][PageCall]_vars

NextOverlap ==
    /\ \E id \in CallIds :
        \/ ExtractCalled(id)
        \/ ArrayBufferLoadedInCall(id)
        \/ DocumentLoadedInCall(id)
        \/ PageLoadedInCall(id)
        \/ TextContentLoadedInCall(id)
        \/ ProviderFailsInCall(id)
    /\ UNCHANGED << fmtVars, pageVars, uiVars, hf, callVars, envVars, copyVars >>

\* Two calls of extractTextFromPDF, each on a document of its own, started
\* at any time and resumed at their awaits in any order.
SpecOverlap == Init /\ [][NextOverlap]_vars

NextCopy ==
    /\ \/ CopyClick
       \/ ClipboardWritten
       \/ ClipboardFails
       \/ FeedbackTimerFires
    /\ UNCHANGED << fmtVars, pageVars, hf, callVars, envVars, overlapVars >>

\* The copy button of the results shown: clicks, the clipboard answering or
\* failing at any later time, the timers firing.
SpecCopy == InitCopy /\ [][NextCopy]_vars

\* ------------------------------------------------------------------------
\* Properties
\* ------------------------------------------------------------------------

\* The lines of s: the pieces between its newlines.
RECURSIVE LinesFrom(_, _)
LinesFrom(s, i) ==
    LET e == FindClass(s, i, {NL})
    IN  IF e > Len(s) THEN << SubSeq(s, i, Len(s)) >>
        ELSE << SubSeq(s, i, e - 1) >> \o LinesFrom(s, e + 1)
Lines(s) == LinesFrom(s, 1)

\* The words of s: its maximal runs of characters that are not white space.
RECURSIVE WordsFrom(_, _)
WordsFrom(s, i) ==
    LET a == SkipClass(s, i, WhiteSpace)
        b == FindClass(s, a, WhiteSpace)
    IN  IF a > Len(s) THEN << >>
        ELSE << SubSeq(s, a, b - 1) >> \o WordsFrom(s, b)
Words(s) == WordsFrom(s, 1)

Concat(seqs) == Join(seqs, << >>)
EndsWith(s, suffix) ==
    Len(s) >= Len(suffix) /\ SubSeq(s, Len(s) - Len(suffix) + 1, Len(s)) = suffix
Occurrences(s, sub) ==
    Cardinality({i \in 1 .. (Len(s) - Len(sub) + 1) : SubSeq(s, i, i + Len(sub) - 1) = sub})
LongestNewlineRun(s) ==
    LET runs == {SkipClass(s, i, {NL}) - i : i \in 1 .. Len(s)}
    IN  IF runs = {} THEN 0 ELSE CHOOSE n \in runs : \A m \in runs : m <= n

\* --- C1 ---------------------------------------------------------------

C1_StartsWithDigitsDot(t) ==
    \E d \in 2 .. Len(t) : t[d] = "." /\ \A j \in 1 .. (d - 1) : t[j] \in Digits
C1_StartsWithGlyph(t) ==
    Len(t) > 0 /\ t[1] \in {BULLET, MIDDOT, SMALLSQUARE, TRIANGLE, SQUARE, "-", "*"}
C1_IsHeading(paras, i) ==
    LET t == Trim(paras[i])
    IN  /\ 5 < Len(t) /\ Len(t) < 60
        /\ ~ C1_StartsWithDigitsDot(t)
        /\ ~ C1_StartsWithGlyph(t)
        /\ i # Len(paras)
        /\ Len(paras[i + 1]) > Len(t)
C1_Plain(t) == ~ C1_StartsWithDigitsDot(t) /\ ~ C1_StartsWithGlyph(t)

\* C1: the classification pass of formatAsMarkdown outputs "## " + t for
\* paragraph i exactly when 5 < length(t) < 60, t starts neither with
\* digits and a dot nor with one of the seven glyphs, i is not the last
\* index and the untrimmed paragraph i+1 is longer than t; otherwise it
\* outputs t.  Lengths 6 and 59 with a longer follower give a heading, 5
\* and 60 never do, and the output is the same when paragraph i is
\* classified with paragraph i+1 alone.
C1_HeadingRule ==
    fmtPc = "return" =>
        /\ Len(formattedParagraphs) = Len(paragraphs)
        /\ \A i \in 1 .. Len(paragraphs) :
            LET t == Trim(paragraphs[i])
                longer == i < Len(paragraphs) /\ Len(paragraphs[i + 1]) > Len(t)
                isHeading == formattedParagraphs[i] = HeadingPrefix \o t
            IN  /\ formattedParagraphs[i] =
                      IF C1_IsHeading(paragraphs, i) THEN HeadingPrefix \o t ELSE t
                /\ (Len(t) \in {6, 59} /\ C1_Plain(t) /\ longer) => isHeading
                /\ Len(t) \in {5, 60} => ~ isHeading
                /\ formattedParagraphs[i] =
                      FormattedParagraphs(
                          IF i < Len(paragraphs)
                          THEN << paragraphs[i], paragraphs[i + 1] >>
                          ELSE << paragraphs[i] >>)[1]

C1_Witness ==
    /\ fmtPc = "return"
    /\ Len(paragraphs) >= 3
    /\ \E i, j \in 1 .. Len(paragraphs) :
        /\ Len(Trim(paragraphs[i])) = 6
        /\ formattedParagraphs[i] = HeadingPrefix \o Trim(paragraphs[i])
        /\ Len(Trim(paragraphs[j])) = 59
        /\ formattedParagraphs[j] = HeadingPrefix \o Trim(paragraphs[j])

\* --- C2 ---------------------------------------------------------------

\* The texts x of the lines of s made of glyph g, white space and x.
C2_ItemTexts(s, g) ==
    LET ls == {Lines(s)[k] : k \in 1 .. Len(Lines(s))}
        items == {l \in ls : /\ Len(l) >= 3 /\ l[1] = g /\ l[2] \in WhiteSpace
                             /\ SkipClass(l, 2, WhiteSpace) <= Len(l)}
    IN  {SubSeq(l, SkipClass(l, 2, WhiteSpace), Len(l)) : l \in items}

\* C2: for every glyph of the set of seven and every text x, an input line
\* made of the glyph, white space and x comes out as "- " followed by x.
C2_BulletsUnified ==
    fmtPc = "return" =>
        \A g \in {BULLET, MIDDOT, SMALLSQUARE, TRIANGLE, SQUARE, "-", "*"} :
            \A x \in C2_ItemTexts(text, g) :
                \E k \in 1 .. Len(Lines(markdown)) :
                    Trim(Lines(markdown)[k]) = << "-", " " >> \o Trim(x)

\* --- C7 ---------------------------------------------------------------

\* C7: the bullet rewrite followed by the numbered-list rewrite, applied
\* twice, gives the text they give when applied once: for the text handed to
\* formatAsMarkdown and for the joined paragraphs the two steps act on.
C7_NormalizeIdempotent ==
    fmtPc = "return" =>
        /\ NormalizeLists(NormalizeLists(text)) = NormalizeLists(text)
        /\ LET joined == JoinedParagraphs(text)
           IN  NormalizeLists(NormalizeLists(joined)) = NormalizeLists(joined)

C7_Witness ==
    /\ fmtPc = "return"
    /\ FormatBullets(text) # text
    /\ FormatNumberedLists(FormatBullets(text)) # FormatBullets(text)
    /\ Len(Lines(text)) >= 2

\* --- C8 ---------------------------------------------------------------

C9_LineByLine ==
    fmtPc = "return" =>
        /\ Len(Lines(NormalizeLists(JoinedParagraphs(text))))
              = Len(Lines(JoinedParagraphs(text)))
        /\ Len(Paragraphs(markdown)) = Len(paragraphs)

\* --- C4 ---------------------------------------------------------------

C4_NewLine(items, k) == k > 1 /\ Abs(items[k].y - items[k - 1].y) > 5
C4_LineOf(items, k) == 1 + Cardinality({j \in 1 .. k : C4_NewLine(items, j)})
C4_LineText(items, l) ==
    LET idx == SelectSeq([k \in 1 .. Len(items) |-> k],
                         LAMBDA k : C4_LineOf(items, k) = l)
    IN  Trim(Join([n \in 1 .. Len(idx) |-> items[idx[n]].str], << " " >>))
C4_Lines(items) ==
    SelectSeq([l \in 1 .. (IF items = << >> THEN 0 ELSE C4_LineOf(items, Len(items))) |->
                  C4_LineText(items, l)],
              LAMBDA t : t # << >>)

\* C4: extractPageText starts a new line at fragment k exactly when
\* |y_k - y_(k-1)| > 5 (a difference of 5 keeps the line); the page text is
\* the non-empty lines, each the trimmed space-joined text of its
\* fragments and each followed by a blank line; no fragment gives "".
C4_LineGrouping ==
    pagePc = "return" =>
        /\ pageText = Concat([l \in 1 .. Len(C4_Lines(textContent)) |->
                                 C4_Lines(textContent)[l] \o ParagraphBreak])
        /\ textContent = << >> => pageText = << >>

C4_Witness ==
    /\ pagePc = "return"
    /\ Len(textContent) = 3
    /\ Abs(textContent[2].y - textContent[1].y) = 5
    /\ Abs(textContent[3].y - textContent[2].y) = 6
    /\ pageText = << "A", " ", "B", NL, NL, "A", NL, NL >>

\* --- C3 ---------------------------------------------------------------

\* The text extractPageText gives for each page of the file handed in.
PageTexts == [n \in 1 .. Len(file.pages) |-> extractPageText(file.pages[n])]
C3_Rules(md) == Cardinality({k \in 1 .. Len(Words(md)) : Words(md)[k] = PageRule})
C3_IntroDetails == Intro \o PageSeparator \o Details

\* C3 as claimed: whatever the pages yield, the Markdown returned never ends
\* with the rule "---".
C3_NeverEndsWithRule ==
    pc = "resolved" => ~ EndsWith(result[1], PageRule)

\* C3 as amended: the Markdown holds one rule for every page but the last;
\* it does not end with the rule when the last page yields a line, and ends
\* with it when the last of two or more pages yields none; for the pages
\* "Intro" and "Details" it holds "Intro\n\n---\n\nDetails" exactly once.
C3_RuleBetweenPages ==
    pc = "resolved" =>
        /\ C3_Rules(result[1]) = numPages - 1
        /\ PageTexts[numPages] # << >> => ~ EndsWith(result[1], PageRule)
        /\ (numPages >= 2 /\ PageTexts[numPages] = << >>) => EndsWith(result[1], PageRule)
        /\ file.pages = << << Item(Intro, 700) >>, << Item(Details, 700) >> >> =>
              /\ Occurrences(result[1], C3_IntroDetails) = 1
              /\ result[1] = C3_IntroDetails

C3_Witness ==
    /\ pc = "resolved"
    /\ numPages = 2
    /\ PageTexts = << Intro \o ParagraphBreak, Details \o ParagraphBreak >>
    /\ result[1] = C3_IntroDetails

\* --- C5 ---------------------------------------------------------------

\* The words of the fragments of the file, page after page, item after item.
C5_PageWords(page) == Concat([k \in 1 .. Len(page) |-> Words(page[k].str)])
C5_InputWords == Concat([n \in 1 .. Len(file.pages) |-> C5_PageWords(file.pages[n])])
\* The words of the Markdown that are not markup the pipeline adds.
C5_OutputWords ==
    SelectSeq(Words(result[1]), LAMBDA w : w # << "#", "#" >> /\ w # PageRule)
C5_Marker(w) == IF Len(w) = 1 /\ w[1] \in ListBulletClass THEN << "-" >> ELSE w
C5_Markers(ws) == [k \in 1 .. Len(ws) |-> C5_Marker(ws[k])]

\* C5 as claimed: the texts of the non-blank fragments are in the Markdown,
\* each once and in the order of the input.
C5_TextKept ==
    pc = "resolved" => C5_OutputWords = C5_InputWords

\* C5 as amended: the same, except that a bullet glyph of the rewrite's class
\* standing alone at the start of a line comes out as "-".
C5_TextKeptUpToMarkers ==
    pc = "resolved" =>
        /\ C5_Markers(C5_OutputWords) = C5_Markers(C5_InputWords)
        /\ \A k \in 1 .. Len(C5_InputWords) :
              C5_OutputWords[k] # C5_InputWords[k] =>
                  /\ C5_InputWords[k] \in {<< g >> : g \in ListBulletClass}
                  /\ C5_OutputWords[k] = << "-" >>

C5_Witness ==
    /\ pc = "resolved"
    /\ numPages = 2
    /\ Len(C5_InputWords) >= 4
    /\ C5_OutputWords # C5_InputWords
    /\ \E n \in 1 .. 2 : \E k \in 1 .. Len(file.pages[n]) : Words(file.pages[n][k].str) = << >>
    /\ Occurrences(result[1], HeadingPrefix) = 1

\* --- C6 ---------------------------------------------------------------

NoRepeat(log) == \A i, j \in 1 .. Len(log) : log[i] = log[j] => i = j

\* C6: when a request of extractTextFromPDF fails, the call returns no
\* Markdown, makes no further request and repeats none, and throws the
\* error the provider raised; handleFile then shows the error and no
\* results.
C6_FailureAborts ==
    /\ pc = "rejected" =>
          /\ result = << >>
          /\ raised \in Errors /\ thrown = raised
          /\ pending = {}
          /\ NoRepeat(requestLog)
    /\ hf = "failed" =>
          /\ pc = "rejected"
          /\ errorShown /\ errorMessage = FailureMessage(raised)
          /\ ~ resultsShown /\ editorValue = << >>

C6_Witness ==
    /\ hf = "failed"
    /\ numPages = 2
    /\ appendedPages = << 1 >>
    /\ fullText # << >>
    /\ requestLog[Len(requestLog)] = Request("getTextContent", 2)

\* --- C10 --------------------------------------------------------------

\* C10: at most one request is outstanding; pdf.getPage(n+1) is requested
\* only when the text of page n is appended; the texts are appended in the
\* order 1, 2, ... and fullText ends as the page texts in that order with the
\* separator between them.
C10_PagesInTurn ==
    /\ Cardinality(pending) <= 1
    /\ \A k \in 1 .. Len(requestLog) :
          (requestLog[k].op = "getPage" /\ requestLog[k].page > 1) =>
              \E a \in 1 .. Len(appendedPages) : appendedPages[a] = requestLog[k].page - 1
    /\ appendedPages = [a \in 1 .. Len(appendedPages) |-> a]
    /\ pc = "resolved" =>
          /\ Len(appendedPages) = numPages
          /\ fullText = Join(PageTexts, PageSeparator)

C10_Witness ==
    /\ pc = "resolved"
    /\ numPages = 2
    /\ appendedPages = << 1, 2 >>
    /\ PageTexts[1] # << >> /\ PageTexts[2] # << >> /\ PageTexts[1] # PageTexts[2]
\* ------------------------------------------------------------------------
\* C11
\* ------------------------------------------------------------------------

\* The accumulator of a call running alone, after its first n pages.
RECURSIVE C11_FullTextAlone(_, _)
C11_FullTextAlone(doc, n) ==
    IF n = 0 THEN << >>
    ELSE AppendPage(C11_FullTextAlone(doc, n - 1), extractPageText(doc[n]), n, Len(doc))
C11_Alone(doc) == formatAsMarkdown(C11_FullTextAlone(doc, Len(doc)))

\* C11: calls of extractTextFromPDF that overlap, resumed at their awaits in
\* any order, share no accumulator: while a call awaits a page its fullText
\* holds the pages of its own document appended so far and nothing else, and
\* the Markdown it returns is the Markdown of the call run alone on its
\* document.
C11_CallsIsolated ==
    \A id \in CallIds :
        /\ calls[id].pc = "await" /\ calls[id].pageNum >= 1
             => fullTexts[AccumulatorOf(id)]
                  = C11_FullTextAlone(calls[id].doc, calls[id].pageNum - 1)
        /\ calls[id].pc = "resolved"
             => calls[id].result = << C11_Alone(calls[id].doc) >>

\* Two calls on different two-page documents, their pages appended in turn,
\* both returned.
C11_Witness ==
    /\ calls[1].doc = << << Item(Intro, 700) >>, << Item(Details, 700) >> >>
    /\ calls[2].doc = << << Item(Details, 700) >>, << Item(Intro, 700) >> >>
    /\ appendLog = << << 1, 1 >>, << 2, 1 >>, << 1, 2 >>, << 2, 2 >> >>
    /\ calls[1].pc = "resolved" /\ calls[2].pc = "resolved"
    /\ calls[1].result = << Intro \o PageSeparator \o Details >>
    /\ calls[2].result = << Details \o PageSeparator \o Intro >>

\* ------------------------------------------------------------------------
\* C12
\* ------------------------------------------------------------------------

\* C12: after any clicks on the copy button, once no clipboard write is
\* pending and every feedback timer has fired, the button is enabled and
\* shows the label it had in the page, not the feedback label.
C12_ButtonRestored ==
    (\A k \in 1 .. Len(clicks) : clicks[k].pc \in {"done", "failed"})
        => ~ copyDisabled /\ copyHTML = COPY_LABEL

\* ------------------------------------------------------------------------
\* C13
\* ------------------------------------------------------------------------

\* The upload section is displayed unless its style says 'none'.
C13_UploadVisible == uploadDisplay # "none"

\* C13: whenever handleFile is not awaiting a conversion, the loading
\* indicator is hidden and exactly one of the upload section and the results
\* section is visible; it is the upload section at the start, after a refused
\* file and after a failed conversion, so that another file can be selected.
C13_OneSectionVisible ==
    hf # "await" =>
        /\ ~ loadingShown
        /\ C13_UploadVisible <=> ~ resultsShown
        /\ hf \in {"idle", "refused", "failed"} => C13_UploadVisible

====
